---- MODULE Spec2Model ----
(***************************************************************************)
(* Model of facebook_test_user.py: the lazily filled token store           *)
(* (FacebookUserAccess) and the test-user lifecycle (TestUser), with the   *)
(* Graph API as a nondeterministic responder.                              *)
(***************************************************************************)
EXTENDS Integers, Sequences, FiniteSets, TLC

VARIABLES phase, tu, ua, created, deletes, last

vars == <<phase, tu, ua, created, deletes, last>>

-----------------------------------------------------------------------------
(* Bounds of the model.                                                    *)

\* longest test-user listing the API returns to get_access_token called alone
MaxListing == 2
\* longest test-user listing the API returns inside the chains of the token store
ShortListing == 1

-----------------------------------------------------------------------------
(* Python values: a tag and a printable form.                              *)

None == [t |-> "none", v |-> "None"]
Str(x) == [t |-> "str", v |-> x]
PyInt(i) == [t |-> "int", v |-> ToString(i)]
Bool(b) == [t |-> "bool", v |-> IF b THEN "True" ELSE "False"]
List(q) == [t |-> "list", v |-> q]
Dict(d) == [t |-> "dict", v |-> d]
\* an attribute that was never assigned: reading it raises AttributeError
Unset == [t |-> "unset", v |-> "unset"]
\* a keyword argument that was not passed
Absent == [t |-> "absent", v |-> "absent"]

\* Python truth value of x
Truthy(x) ==
    CASE x.t = "none" -> FALSE
      [] x.t = "str"  -> x.v # ""
      [] x.t = "int"  -> x.v # "0"
      [] x.t = "bool" -> x.v = "True"
      [] x.t = "list" -> Len(x.v) > 0
      [] x.t = "dict" -> DOMAIN x.v # {}
      [] OTHER        -> TRUE

\* bool(x)
PyBool(x) == Bool(Truthy(x))

\* str(x), and x as "%s" formats it
PyStr(x) == Str(x.v)

\* d.get(k, default) on a mapping d
Get(d, k, default) == IF k \in DOMAIN d THEN d[k] ELSE default

-----------------------------------------------------------------------------
(* Configuration (from config import ...).                                 *)

FB_HOST == "https://graph"
FB_APP_ID == "APP"
FB_APP_SECRET == "SECRET"

-----------------------------------------------------------------------------
(* Requests and responses.                                                 *)

\* ep labels the endpoint the request goes to
Request(ep, method, url, params) ==
    [ep |-> ep, method |-> method, url |-> url, params |-> params]

\* the transport raised (requests.exceptions.ConnectionError): no response
TransportFailure == [kind |-> "fail", body |-> <<>>, obj |-> <<>>]
\* a response whose text is the concatenation of the atoms of body
TextResponse(body) == [kind |-> "text", body |-> body, obj |-> <<>>]
\* a response whose text is no JSON document: response.json() raises ValueError
NotJson == [kind |-> "notjson", body |-> <<>>, obj |-> <<>>]
\* a response whose text is the JSON object obj
JsonResponse(obj) == [kind |-> "json", body |-> <<>>, obj |-> obj]
\* no response: the request was not issued
NoResponse == [kind |-> "none", body |-> <<>>, obj |-> <<>>]

\* outcome of a call: the value returned, or the exception raised; with the
\* requests issued and the store as the call left it
Return(s, reqs, ret) == [s |-> s, reqs |-> reqs, exc |-> "", ret |-> ret]
Raise(s, reqs, exc) == [s |-> s, reqs |-> reqs, exc |-> exc, ret |-> None]

\* K applied to the value of e, with e evaluated once
Bind(e, K(_)) == CHOOSE o \in {K(x) : x \in {e}} : TRUE

\* a call e inside a method: what it raises propagates, what it returns goes on to K
Try(e, K(_)) == Bind(e, LAMBDA r : IF r.exc # "" THEN r ELSE K(r))

-----------------------------------------------------------------------------
(* Form-encoded bodies: text.split('&'), then partition('=')[::2].         *)

RECURSIVE Join(_)
Join(atoms) == IF atoms = <<>> THEN "" ELSE Head(atoms) \o Join(Tail(atoms))

\* index of the first atom equal to sep at or after i, or Len + 1
RECURSIVE Find(_, _, _)
Find(atoms, sep, i) ==
    IF i > Len(atoms) THEN Len(atoms) + 1
    ELSE IF atoms[i] = sep THEN i
    ELSE Find(atoms, sep, i + 1)

\* text.split(sep): the segments between the separators, in order
RECURSIVE Split(_, _)
Split(atoms, sep) ==
    LET k == Find(atoms, sep, 1)
    IN  IF k > Len(atoms) THEN <<atoms>>
        ELSE <<SubSeq(atoms, 1, k - 1)>> \o Split(SubSeq(atoms, k + 1, Len(atoms)), sep)

\* segment.partition('=')[::2]: the text before the first '=' and the text after it
Partition(seg) ==
    LET k == Find(seg, "=", 1)
    IN  [name |-> Join(SubSeq(seg, 1, k - 1)),
         value |-> Join(SubSeq(seg, k + 1, Len(seg)))]

\* the loop over response.text.split('&') of get_app_access_token and
\* get_long_term_access_token: the value of the first parameter named
\* access_token, or Absent when there is none
RECURSIVE FirstAccessToken(_)
FirstAccessToken(segs) ==
    IF segs = <<>> THEN Absent
    ELSE LET p == Partition(Head(segs))
         IN  IF p.name = "access_token" THEN Str(p.value)
             ELSE FirstAccessToken(Tail(segs))

-----------------------------------------------------------------------------
(* FacebookUserAccess: a store s is the record of the instance attributes  *)
(* id, app_access_token, _access_token, _long_term_access_token,           *)
(* _access_code and _page_token.                                           *)

GrantRequest ==
    Request("grant", "GET", FB_HOST \o "/oauth/access_token",
            [client_id |-> Str(FB_APP_ID), client_secret |-> Str(FB_APP_SECRET),
             grant_type |-> Str("client_credentials")])

\* static: the application access token from the credential grant
get_app_access_token(s, rg) ==
    LET reqs == <<GrantRequest>>
    IN  IF rg.kind = "fail" THEN Raise(s, reqs, "ConnectionError")
        ELSE LET tok == FirstAccessToken(Split(rg.body, "&"))
             IN  IF tok # Absent THEN Return(s, reqs, tok)
                 ELSE Raise(s, reqs, "FacebookResponseError")

\* _get_json(response): the decoded object, or the exception raised
_get_json(response) ==
    IF response.kind = "notjson" THEN [exc |-> "FacebookResponseError", dict |-> <<>>]
    ELSE IF "error" \in DOMAIN response.obj
         THEN [exc |-> "FacebookResponseError", dict |-> <<>>]
         ELSE [exc |-> "", dict |-> response.obj]

ListingRequest(s) ==
    Request("listing", "GET", FB_HOST \o "/" \o FB_APP_ID \o "/accounts/test-users",
            [access_token |-> s.app_access_token])

\* the loop of get_access_token over the users of the listing
RECURSIVE FindUser(_, _, _)
FindUser(s, reqs, users) ==
    IF users = <<>> THEN Raise(s, reqs, "FacebookNotFoundError")
    ELSE LET user == Head(users)
         IN  IF Get(user.v, "id", None) = PyStr(s.id)
             THEN LET token == Get(user.v, "access_token", None)
                  IN  IF ~Truthy(token) THEN Raise(s, reqs, "FacebookResponseError")
                      ELSE Return(s, reqs, token)
             ELSE FindUser(s, reqs, Tail(users))

get_access_token(s, rl) ==
    LET reqs == <<ListingRequest(s)>>
    IN  IF rl.kind = "fail" THEN Raise(s, reqs, "ConnectionError")
        ELSE LET j == _get_json(rl)
             IN  IF j.exc # "" THEN Raise(s, reqs, j.exc)
                 ELSE LET data == Get(j.dict, "data", None)
                      IN  IF data.t # "list" THEN Raise(s, reqs, "TypeError")
                          ELSE FindUser(s, reqs, data.v)

\* the access_token accessor without its "if not self._access_token" guard
access_token_unguarded(s, rl) ==
    Try(get_access_token(s, rl),
        LAMBDA r : Return([r.s EXCEPT !.access_token = r.ret], r.reqs, r.ret))

\* property access_token
access_token(s, rl) ==
    IF ~Truthy(s.access_token)
    THEN Try(get_access_token(s, rl),
             LAMBDA r : Return([r.s EXCEPT !.access_token = r.ret], r.reqs, r.ret))
    ELSE Return(s, <<>>, s.access_token)

ExchangeRequest(token) ==
    Request("exchange", "GET", FB_HOST \o "/oauth/access_token",
            [grant_type |-> Str("fb_exchange_token"), client_id |-> Str(FB_APP_ID),
             client_secret |-> Str(FB_APP_SECRET), fb_exchange_token |-> token])

get_long_term_access_token(s, rl, rx) ==
    Try(access_token(s, rl), LAMBDA a :
        LET reqs == a.reqs \o <<ExchangeRequest(a.ret)>>
        IN  IF rx.kind = "fail" THEN Raise(a.s, reqs, "ConnectionError")
            ELSE LET tok == FirstAccessToken(Split(rx.body, "&"))
                 IN  IF tok # Absent THEN Return(a.s, reqs, tok)
                     ELSE Raise(a.s, reqs, "FacebookNotFoundError"))

\* property long_term_access_token
long_term_access_token(s, rl, rx) ==
    IF ~Truthy(s.long_term_access_token)
    THEN Try(get_long_term_access_token(s, rl, rx),
             LAMBDA r : Return([r.s EXCEPT !.long_term_access_token = r.ret],
                               r.reqs, r.ret))
    ELSE Return(s, <<>>, s.long_term_access_token)

ClientCodeRequest(token, redirect_uri) ==
    Request("client_code", "GET", FB_HOST \o "/oauth/client_code",
            [access_token |-> token, client_id |-> Str(FB_APP_ID),
             client_secret |-> Str(FB_APP_SECRET), redirect_uri |-> redirect_uri])

\* FacebookAPIError is bound nowhere in the module: evaluating the raise
\* statement raises NameError
get_access_code(s, rl, rx, rc, redirect_uri) ==
    Try(long_term_access_token(s, rl, rx), LAMBDA l :
        LET reqs == l.reqs \o <<ClientCodeRequest(l.ret, redirect_uri)>>
        IN  IF rc.kind = "fail" THEN Raise(l.s, reqs, "ConnectionError")
            ELSE IF rc.kind = "notjson" THEN Raise(l.s, reqs, "NameError")
            ELSE IF "error" \in DOMAIN rc.obj THEN Raise(l.s, reqs, "NameError")
            ELSE LET j == _get_json(rc)
                 IN  IF j.exc # "" THEN Raise(l.s, reqs, j.exc)
                     ELSE Return(l.s, reqs, Get(j.dict, "code", None)))

\* the access_code accessor without its "if not self._access_code" guard
access_code_unguarded(s, rl, rx, rc) ==
    Try(get_access_code(s, rl, rx, rc, Str("")),
        LAMBDA r : Return([r.s EXCEPT !.access_code = r.ret], r.reqs, r.ret))

\* property access_code
access_code(s, rl, rx, rc) ==
    IF ~Truthy(s.access_code)
    THEN Try(get_access_code(s, rl, rx, rc, Str("")),
             LAMBDA r : Return([r.s EXCEPT !.access_code = r.ret], r.reqs, r.ret))
    ELSE Return(s, <<>>, s.access_code)

\* page_token is built by @access_code.setter: a property with the getter of
\* access_code and a setter that assigns _page_token
page_token(s, rl, rx, rc) == access_code(s, rl, rx, rc)

AccountsRequest(s, params) ==
    Request("accounts", "GET", FB_HOST \o "/" \o PyStr(s.id).v \o "/accounts", params)

get_page_data(s, rl, ra) ==
    Try(access_token(s, rl), LAMBDA a :
        LET reqs == a.reqs \o
                <<AccountsRequest(a.s, [access_token |-> a.ret,
                                        client_id |-> Str(FB_APP_ID),
                                        client_secret |-> Str(FB_APP_SECRET)])>>
        IN  IF ra.kind = "fail" THEN Raise(a.s, reqs, "ConnectionError")
            ELSE IF ra.kind = "notjson" THEN Raise(a.s, reqs, "NameError")
            ELSE IF "error" \in DOMAIN ra.obj THEN Raise(a.s, reqs, "NameError")
            ELSE Return(a.s, reqs, Get(ra.obj, "data", None)))

get_page_permissions(s, rl, ra) ==
    Try(access_token(s, rl), LAMBDA a :
        LET reqs == a.reqs \o <<AccountsRequest(a.s, [access_token |-> a.ret])>>
        IN  IF ra.kind = "fail" THEN Raise(a.s, reqs, "ConnectionError")
            ELSE LET j == _get_json(ra)
                 IN  IF j.exc # "" THEN Raise(a.s, reqs, j.exc)
                     ELSE Return(a.s, reqs, Get(j.dict, "data", None)))

PermissionsRequest(s) ==
    Request("permissions", "GET", FB_HOST \o "/" \o PyStr(s.id).v \o "/permissions",
            [access_token |-> s.app_access_token])

get_permissions(s, rp) ==
    LET reqs == <<PermissionsRequest(s)>>
    IN  IF rp.kind = "fail" THEN Raise(s, reqs, "ConnectionError")
        ELSE LET j == _get_json(rp)
             IN  IF j.exc # "" THEN Raise(s, reqs, j.exc)
                 ELSE Return(s, reqs, Get(j.dict, "data", None))

\* FacebookUserAccess.__init__(**kwargs). The default of kwargs.get is an
\* argument: get_app_access_token() is called before the lookup, whatever
\* kwargs holds.
NoStore ==
    [id |-> Unset, app_access_token |-> Unset, access_token |-> Unset,
     long_term_access_token |-> Unset, access_code |-> Unset, page_token |-> Unset]

FacebookUserAccess(kwargs, rg) ==
    Try(get_app_access_token([NoStore EXCEPT !.id = Get(kwargs, "id", None)], rg),
        LAMBDA g :
        Return([g.s EXCEPT !.app_access_token = Get(kwargs, "app_access_token", g.ret),
                           !.access_token = Get(kwargs, "access_token", None),
                           !.long_term_access_token =
                               Get(kwargs, "long_term_access_token", None),
                           !.access_code = Get(kwargs, "access_code", None)],
               g.reqs, None))

-----------------------------------------------------------------------------
(* TestUser: tu is the record of the instance attributes.                  *)

generate_user_installed == Bool(TRUE)
generate_user_permissions == Str("email")
generate_name == None
generate_user_locale == Str("en_US")
generate_user_id == None

NoUser ==
    [app_access_token |-> Unset, delete_user |-> Unset, id |-> Unset,
     login_url |-> Unset, email |-> Unset, password |-> Unset]

\* the filter written as "if v is not None"
RemoveNone(params) ==
    [k \in {x \in DOMAIN params : params[x] # None} |-> params[k]]

\* dict((k, v) for k, v in params.iteritems() if v)
RemoveEmpty(params) ==
    [k \in {x \in DOMAIN params : Truthy(params[x])} |-> params[k]]

CreateParams(u, kwargs) ==
    RemoveEmpty([installed |-> PyBool(Get(kwargs, "installed", generate_user_installed)),
                 permissions |-> Get(kwargs, "permissions", generate_user_permissions),
                 name |-> Get(kwargs, "name", generate_name),
                 locale |-> Get(kwargs, "locale", generate_user_locale),
                 id |-> Get(kwargs, "id", generate_user_id),
                 access_token |-> u.app_access_token])

generate_user(u, kwargs, rp) ==
    LET reqs == <<Request("create", "POST",
                          FB_HOST \o "/" \o FB_APP_ID \o "/accounts/test-users",
                          CreateParams(u, kwargs))>>
    IN  IF rp.kind = "fail" THEN Raise(u, reqs, "ConnectionError")
        ELSE IF rp.kind = "notjson" THEN Raise(u, reqs, "ValueError")
        ELSE IF "error" \in DOMAIN rp.obj THEN Raise(u, reqs, "FacebookResponseError")
        ELSE Return(u, reqs, Dict(rp.obj))

\* the attributes __init__ copies from the provisioning response
Provisioned(u, test_user) ==
    [u EXCEPT !.id = Get(test_user.v, "id", None),
              !.login_url = Get(test_user.v, "login_url", None),
              !.email = Get(test_user.v, "email", None),
              !.password = Get(test_user.v, "password", None)]

\* TestUser.__init__(**kwargs): what it leaves of the object (u), of its
\* token store (s) and of the provisioning response (test_user), the
\* requests issued and the exception raised, if any
Constructed(u, s, test_user, reqs, exc) ==
    [u |-> u, s |-> s, test_user |-> test_user, reqs |-> reqs, exc |-> exc]

TestUser(kwargs, rg1, rp, rg2) ==
    Bind(get_app_access_token(NoStore, rg1), LAMBDA g :
      IF g.exc # "" THEN Constructed(NoUser, NoStore, Unset, g.reqs, g.exc)
      ELSE
      Bind([NoUser EXCEPT !.app_access_token = Get(kwargs, "app_access_token", g.ret),
                          !.delete_user = Get(kwargs, "delete_user", Bool(TRUE))],
           LAMBDA u1 :
      Bind(generate_user(u1, kwargs, rp), LAMBDA c :
        IF c.exc # "" THEN Constructed(u1, NoStore, Unset, g.reqs \o c.reqs, c.exc)
        ELSE
        Bind(Provisioned(u1, c.ret), LAMBDA u2 :
        Bind(FacebookUserAccess([app_access_token |-> u2.app_access_token,
                                 id |-> u2.id,
                                 access_token |-> Get(c.ret.v, "access_token", None)],
                                rg2),
             LAMBDA f :
          Constructed(u2, IF f.exc # "" THEN NoStore ELSE f.s, c.ret,
                      g.reqs \o c.reqs \o f.reqs, f.exc))))))

DeleteRequest(u) ==
    Request("delete", "DELETE", FB_HOST \o "/" \o PyStr(u.id).v, [access_token |-> u.app_access_token])

\* __del__ without its "if self.delete_user" test
del_unconditional(u, rd) ==
    IF u.delete_user = Unset \/ u.id = Unset THEN Raise(u, <<>>, "AttributeError")
    ELSE IF rd.kind = "fail" THEN Raise(u, <<DeleteRequest(u)>>, "ConnectionError")
    ELSE Return(u, <<DeleteRequest(u)>>, None)

\* TestUser.__del__: reading an attribute __init__ never assigned raises
\* AttributeError; nothing in the method catches what requests.delete raises
__del__(u, rd) ==
    IF u.delete_user = Unset THEN Raise(u, <<>>, "AttributeError")
    ELSE IF Truthy(u.delete_user)
    THEN IF u.id = Unset THEN Raise(u, <<>>, "AttributeError")
         ELSE IF rd.kind = "fail" THEN Raise(u, <<DeleteRequest(u)>>, "ConnectionError")
         ELSE Return(u, <<DeleteRequest(u)>>, None)
    ELSE Return(u, <<>>, None)

-----------------------------------------------------------------------------
(* What the environment supplies: the answers of the Graph API and the     *)
(* arguments of the caller.                                                *)

OAuthError == [error |-> Str("OAuthException")]

GrantResponses ==
    {TransportFailure,
     TextResponse(<<"access_token", "=", "A1", "&", "expires", "=", "0">>),
     TextResponse(<<"error">>)}

ExchangeResponses ==
    {TransportFailure,
     TextResponse(<<"access_token", "=", "L1", "&", "expires", "=", "0">>),
     TextResponse(<<"expires", "=", "0", "&", "access_token", "=", "L1">>),
     TextResponse(<<"access_token", "=", "&", "expires", "=", "0">>),
     TextResponse(<<"error">>)}

ListingEntries ==
    {Dict([id |-> Str(i)]) : i \in {"1", "2"}}
    \cup {Dict([id |-> Str(i), access_token |-> Str(a)]) : i \in {"1", "2"}, a \in {"", "T1"}}

ListingsUpTo(n) == UNION {[1..k -> ListingEntries] : k \in 0..n}

ListingFailures == {TransportFailure, NotJson, JsonResponse(OAuthError), JsonResponse(<<>>)}

\* every listing of up to MaxListing users
ListingResponses ==
    ListingFailures \cup {JsonResponse([data |-> List(q)]) : q \in ListingsUpTo(MaxListing)}

\* every listing of up to ShortListing users
ShortListingResponses ==
    ListingFailures \cup {JsonResponse([data |-> List(q)]) : q \in ListingsUpTo(ShortListing)}

CodeResponses ==
    {TransportFailure, NotJson, JsonResponse(OAuthError),
     JsonResponse([error |-> Str("OAuthException"), code |-> Str("K1")]),
     JsonResponse([code |-> Str("K1")]), JsonResponse(<<>>)}

AccountsResponses ==
    {TransportFailure, NotJson, JsonResponse(OAuthError), JsonResponse(<<>>),
     JsonResponse([data |-> List(<<>>)]),
     JsonResponse([data |-> List(<<Dict([name |-> Str("page"), id |-> Str("9")])>>)])}

PermissionsResponses ==
    {TransportFailure, NotJson, JsonResponse(OAuthError), JsonResponse(<<>>),
     JsonResponse([data |-> List(<<Dict([permission |-> Str("email"),
                                         status |-> Str("granted")])>>)])}

CreateResponses ==
    {TransportFailure, NotJson, JsonResponse(OAuthError), JsonResponse(<<>>),
     JsonResponse([id |-> Str("1"), login_url |-> Str("https://login"),
                   email |-> Str("u@tfbnw.net"), password |-> Str("pw")]),
     JsonResponse([id |-> Str("1"), access_token |-> Str("U1"),
                   login_url |-> Str("https://login"),
                   email |-> Str("u@tfbnw.net"), password |-> Str("pw")])}

DeleteResponses ==
    {TransportFailure, TextResponse(<<"true">>), JsonResponse(OAuthError)}

\* keyword arguments: the choices that were passed (those not Absent)
Kwargs(choice) == [k \in {x \in DOMAIN choice : choice[x] # Absent} |-> choice[k]]

StoreKwargs ==
    {Kwargs(c) : c \in [id : {Absent, PyInt(1)},
                        app_access_token : {Str("A0")},
                        access_token : {Absent, Str("U0")}]}

AllStoreKwargs ==
    {Kwargs(c) : c \in [id : {Absent, PyInt(1)},
                        app_access_token : {Str("A0")},
                        access_token : {Absent, Str("U0")},
                        long_term_access_token : {Absent, Str("L0")},
                        access_code : {Absent, Str("K0")}]}

UserKwargs ==
    {Kwargs(c) : c \in [app_access_token : {Absent, Str("A0")},
                        delete_user : {Absent, Bool(TRUE), Bool(FALSE)}]}

CreateKwargs ==
    {Kwargs(c) : c \in [app_access_token : {Absent, Str("A0")},
                        delete_user : {Absent, Bool(FALSE)},
                        installed : {Absent, Bool(TRUE), Bool(FALSE)},
                        permissions : {Absent, Str(""), Str("email, manage_pages")},
                        name : {Absent, None, Str("Bob")},
                        locale : {Absent, Str("")},
                        id : {Absent, PyInt(7)}]}

RedirectUris == {Str(""), Str("https://r")}
\* what the caller assigns through a setter: None discards the cached value
SetterValues == {None}

-----------------------------------------------------------------------------
(* The state machine. phase: "start" before any object exists, "store" a   *)
(* FacebookUserAccess built by the caller, "user" a TestUser with its      *)
(* store, "failed" a TestUser whose __init__ raised (the object exists and *)
(* will be finalized), "dead" afterwards. last records the latest          *)
(* operation: its name, outcome, the requests it issued, the answer to its *)
(* own request (resp), its keyword arguments, and, when the operation      *)
(* before it was a read of the same accessor, that read's outcome (again). *)
(* created is the provisioning response __init__ received, deletes the     *)
(* number of DELETE requests issued so far.                                *)

NoAgain == [same |-> FALSE, exc |-> "", ret |-> None, n |-> 0]

\* number of requests to endpoint ep among reqs
RECURSIVE Count(_, _)
Count(reqs, ep) ==
    IF reqs = <<>> THEN 0
    ELSE (IF Head(reqs).ep = ep THEN 1 ELSE 0) + Count(Tail(reqs), ep)

Op(op, r, resp, kw, again) ==
    [op |-> op, exc |-> r.exc, ret |-> r.ret, reqs |-> r.reqs, resp |-> resp,
     kw |-> kw, again |-> again]

\* the summary of the read before this one, when it was a read of the same accessor
Again(op, ep) ==
    IF last.op = op
    THEN [same |-> TRUE, exc |-> last.exc, ret |-> last.ret, n |-> Count(last.reqs, ep)]
    ELSE NoAgain

\* the answers an operation can get from an endpoint it may call
Answers(needed, responses) == IF needed THEN responses ELSE {NoResponse}

Live == phase \in {"store", "user"}

Init ==
    /\ phase = "start"
    /\ tu = NoUser
    /\ ua = NoStore
    /\ created = Unset
    /\ deletes = 0
    /\ last = Op("", Return(NoStore, <<>>, None), NoResponse, <<>>, NoAgain)

\* a step of the store: operation op with outcome result
StoreStep(op, result, resp, again) ==
    \E r \in {result} :
        /\ ua' = r.s
        /\ last' = Op(op, r, resp, <<>>, again)
        /\ deletes' = deletes + Count(r.reqs, "delete")
        /\ UNCHANGED <<phase, tu, created>>

\* FacebookUserAccess.get_app_access_token(), as test() calls it
GetAppAccessToken ==
    /\ phase = "start"
    /\ \E rg \in GrantResponses :
       \E r \in {get_app_access_token(ua, rg)} :
         /\ last' = Op("get_app_access_token", r, rg, <<>>, NoAgain)
         /\ deletes' = deletes + Count(r.reqs, "delete")
         /\ UNCHANGED <<phase, tu, ua, created>>

\* FacebookUserAccess(**kwargs) by the caller, with kwargs among kws
NewStoreWith(kws) ==
    /\ phase = "start"
    /\ \E kw \in kws, rg \in GrantResponses :
         \E r \in {FacebookUserAccess(kw, rg)} :
             /\ phase' = IF r.exc = "" THEN "store" ELSE "dead"
             /\ ua' = IF r.exc = "" THEN r.s ELSE NoStore
             /\ last' = Op("FacebookUserAccess", r, NoResponse, kw, NoAgain)
             /\ deletes' = deletes + Count(r.reqs, "delete")
             /\ UNCHANGED <<tu, created>>

NewStore == NewStoreWith(StoreKwargs)

CreateStore == NewStoreWith(AllStoreKwargs)

\* TestUser(**kwargs) with kwargs among kws
NewTestUserWith(kws) ==
    /\ phase = "start"
    /\ \E kw \in kws, rg1 \in GrantResponses, rp \in CreateResponses,
          rg2 \in GrantResponses :
         \E r \in {TestUser(kw, rg1, rp, rg2)} :
             /\ phase' = IF r.exc = "" THEN "user" ELSE "failed"
             /\ tu' = r.u
             /\ ua' = r.s
             /\ created' = r.test_user
             /\ deletes' = deletes + Count(r.reqs, "delete")
             /\ last' = Op("TestUser", [r EXCEPT !.s = NoStore] @@ [ret |-> None],
                           IF Count(r.reqs, "create") > 0 THEN rp ELSE NoResponse,
                           kw, NoAgain)

NewTestUser == NewTestUserWith(UserKwargs)

CreateTestUser == NewTestUserWith(CreateKwargs)

\* the TestUser object is finalized
Teardown ==
    /\ phase \in {"user", "failed"}
    /\ \E rd \in Answers(tu.delete_user # Unset /\ Truthy(tu.delete_user) /\ tu.id # Unset,
                         DeleteResponses) :
         \E r \in {__del__(tu, rd)} :
             /\ phase' = "dead"
             /\ last' = Op("__del__", r, rd, <<>>, NoAgain)
             /\ deletes' = deletes + Count(r.reqs, "delete")
             /\ UNCHANGED <<tu, ua, created>>

\* the answers a read chain may get: an endpoint is asked only when the
\* fetches before it in the chain returned
ReadAccessTokenWith(listings) ==
    /\ Live
    /\ \E rl \in listings :
       \E r \in {access_token(ua, rl)} :
         StoreStep("access_token", r, IF r.reqs = <<>> THEN NoResponse ELSE rl,
                   Again("access_token", "listing"))

ReadAccessToken == ReadAccessTokenWith(ShortListingResponses)

ReadLongTermAccessToken ==
    /\ Live
    /\ LET needX == ~Truthy(ua.long_term_access_token)
       IN  \E rl \in Answers(needX /\ ~Truthy(ua.access_token), ShortListingResponses) :
           \E rx \in Answers(needX /\ access_token(ua, rl).exc = "", ExchangeResponses) :
             StoreStep("long_term_access_token", long_term_access_token(ua, rl, rx), rx,
                       Again("long_term_access_token", "exchange"))

ReadAccessCodeAs(op) ==
    /\ Live
    /\ LET needC == ~Truthy(ua.access_code)
           needX == needC /\ ~Truthy(ua.long_term_access_token)
       IN  \E rl \in Answers(needX /\ ~Truthy(ua.access_token), ShortListingResponses) :
           \E rx \in Answers(needX /\ access_token(ua, rl).exc = "", ExchangeResponses) :
           \E rc \in Answers(needC /\ long_term_access_token(ua, rl, rx).exc = "",
                             CodeResponses) :
             StoreStep(op, IF op = "page_token" THEN page_token(ua, rl, rx, rc)
                                                ELSE access_code(ua, rl, rx, rc),
                       rc, Again(op, "client_code"))

ReadAccessCode == ReadAccessCodeAs("access_code")

ReadPageToken == ReadAccessCodeAs("page_token")

\* the setters
SetAccessToken ==
    /\ Live
    /\ \E v \in SetterValues :
         StoreStep("access_token=", Return([ua EXCEPT !.access_token = v], <<>>, None),
                   NoResponse, NoAgain)

SetLongTermAccessToken ==
    /\ Live
    /\ \E v \in SetterValues :
         StoreStep("long_term_access_token=",
                   Return([ua EXCEPT !.long_term_access_token = v], <<>>, None),
                   NoResponse, NoAgain)

SetAccessCode ==
    /\ Live
    /\ \E v \in SetterValues :
         StoreStep("access_code=", Return([ua EXCEPT !.access_code = v], <<>>, None),
                   NoResponse, NoAgain)

SetPageToken ==
    /\ Live
    /\ \E v \in SetterValues :
         StoreStep("page_token=", Return([ua EXCEPT !.page_token = v], <<>>, None),
                   NoResponse, NoAgain)

\* the get_* methods called directly: what they return is not stored
Call(op, r, resp) == StoreStep(op, r, resp, NoAgain)

GetAccessTokenWith(listings) ==
    /\ Live
    /\ \E rl \in listings :
         Call("get_access_token", get_access_token(ua, rl), rl)

GetAccessToken == GetAccessTokenWith(ShortListingResponses)

GetLongTermAccessToken ==
    /\ Live
    /\ \E rl \in Answers(~Truthy(ua.access_token), ShortListingResponses) :
       \E rx \in Answers(access_token(ua, rl).exc = "", ExchangeResponses) :
         Call("get_long_term_access_token", get_long_term_access_token(ua, rl, rx), rx)

GetAccessCode ==
    /\ Live
    /\ LET needX == ~Truthy(ua.long_term_access_token)
       IN  \E rl \in Answers(needX /\ ~Truthy(ua.access_token), ShortListingResponses) :
           \E rx \in Answers(needX /\ access_token(ua, rl).exc = "", ExchangeResponses) :
           \E rc \in Answers(long_term_access_token(ua, rl, rx).exc = "", CodeResponses) :
           \E uri \in RedirectUris :
             Call("get_access_code", get_access_code(ua, rl, rx, rc, uri), rc)

GetPageData ==
    /\ Live
    /\ \E rl \in Answers(~Truthy(ua.access_token), ShortListingResponses) :
       \E ra \in Answers(access_token(ua, rl).exc = "", AccountsResponses) :
         Call("get_page_data", get_page_data(ua, rl, ra), ra)

GetPagePermissions ==
    /\ Live
    /\ \E rl \in Answers(~Truthy(ua.access_token), ShortListingResponses) :
       \E ra \in Answers(access_token(ua, rl).exc = "", AccountsResponses) :
         Call("get_page_permissions", get_page_permissions(ua, rl, ra), ra)

GetPermissions ==
    /\ Live
    /\ \E rp \in PermissionsResponses :
         Call("get_permissions", get_permissions(ua, rp), rp)

\* a token store built by the caller, and every operation on it
Next ==
    \/ GetAppAccessToken
    \/ NewStore
    \/ ReadAccessToken
    \/ ReadLongTermAccessToken
    \/ ReadAccessCode
    \/ ReadPageToken
    \/ SetAccessToken
    \/ SetLongTermAccessToken
    \/ SetAccessCode
    \/ SetPageToken
    \/ GetAccessToken
    \/ GetLongTermAccessToken
    \/ GetAccessCode
    \/ GetPageData
    \/ GetPagePermissions
    \/ GetPermissions

Spec == Init /\ [][Next]_vars

\* construction with every combination of keyword arguments, and teardown
NextCreate ==
    \/ CreateStore
    \/ CreateTestUser
    \/ Teardown

SpecCreate == Init /\ [][NextCreate]_vars

\* the life of a TestUser: creation, reads of its token store, teardown
NextLifecycle ==
    \/ NewTestUser
    \/ ReadAccessToken
    \/ ReadLongTermAccessToken
    \/ ReadAccessCode
    \/ ReadPageToken
    \/ Teardown

SpecLifecycle == Init /\ [][NextLifecycle]_vars

\* get_access_token and the access_token accessor over every listing
NextListing ==
    \/ NewStore
    \/ GetAccessTokenWith(ListingResponses)
    \/ ReadAccessTokenWith(ListingResponses)

SpecListing == Init /\ [][NextListing]_vars

-----------------------------------------------------------------------------
(* Properties.                                                             *)

\* the lazy accessors, and the endpoint each fetches its field from
Reads == {"access_token", "long_term_access_token", "access_code"}

FieldEndpoint(op) ==
    CASE op = "access_token" -> "listing"
      [] op = "long_term_access_token" -> "exchange"
      [] OTHER -> "client_code"

Setters == {"access_token=", "long_term_access_token=", "access_code=", "page_token="}

\* the operations that expect a JSON response (generate_user runs inside TestUser)
JsonOps ==
    {"get_access_token", "get_access_code", "get_page_data", "get_page_permissions",
     "get_permissions", "TestUser"}

Endpoints(reqs) == [i \in 1..Len(reqs) |-> reqs[i].ep]

IsPrefix(p, q) == Len(p) <= Len(q) /\ SubSeq(q, 1, Len(p)) = p

\* the previous operation was a read of the same accessor that had to fetch
\* (the field was empty) and returned
ReadTwice ==
    /\ last.op \in Reads
    /\ last.again.same
    /\ last.again.exc = ""
    /\ last.again.n >= 1

\* the two reads issued one request for the field, and the second returned
\* the value of the first without a request
OneCall ==
    /\ last.again.n = 1
    /\ Count(last.reqs, FieldEndpoint(last.op)) = 0
    /\ last.exc = ""
    /\ last.ret = last.again.ret

\* C1, as stated: two reads in a row of a lazy accessor, whose first fetch
\* did not raise, issue exactly one request for the field, and the second
\* read returns the cached value without a request.
C1_OneCallWheneverFirstReadReturns == ReadTwice => OneCall

\* C1, amended: two reads in a row of a lazy accessor, whose first fetch
\* returned a non-empty value, issue exactly one request for the field, and
\* the second read returns the cached value without a request.
C1_OneCallWhenFirstReadNonEmpty ==
    (ReadTwice /\ Truthy(last.again.ret)) => OneCall

C1_Witness ==
    /\ ReadTwice
    /\ last.op = "access_code"
    /\ last.again.ret = Str("K1")
    /\ last.reqs = <<>>
    /\ last.ret = Str("K1")

\* C2: an operation that expects JSON and whose response object holds an
\* error field fails with FacebookResponseError.
C2_ErrorFieldRaisesResponseError ==
    (last.op \in JsonOps /\ last.resp.kind = "json" /\ "error" \in DOMAIN last.resp.obj)
        => last.exc = "FacebookResponseError"

\* C3: an operation that expects JSON and whose response body is no JSON
\* fails with FacebookResponseError.
C3_NotJsonRaisesResponseError ==
    (last.op \in JsonOps /\ last.resp.kind = "notjson")
        => last.exc = "FacebookResponseError"

\* the positions of the users of a listing whose id is the string form of id
Matching(users, id) ==
    {i \in 1..Len(users) : Get(users[i].v, "id", None) = PyStr(id)}

FirstOf(positions) == CHOOSE i \in positions : \A j \in positions : i <= j

\* C4: on a well-formed listing without error field, get_access_token fails
\* with FacebookNotFoundError when no user has the id of the store, and when
\* the first user with that id has no access_token or an empty one.
C4_NotFoundWithoutUserOrToken ==
    (/\ last.op = "get_access_token"
     /\ last.resp.kind = "json"
     /\ "error" \notin DOMAIN last.resp.obj
     /\ "data" \in DOMAIN last.resp.obj)
        => LET users == last.resp.obj.data.v
               m == Matching(users, ua.id)
           IN  (m = {} \/ ~Truthy(Get(users[FirstOf(m)].v, "access_token", None)))
                   => last.exc = "FacebookNotFoundError"

\* C5: a FacebookUserAccess or TestUser constructed with app_access_token
\* issues no credential-grant request, and the TestUser issues exactly one
\* request, the provisioning POST.
C5_NoGrantWhenTokenSupplied ==
    (last.op \in {"TestUser", "FacebookUserAccess"} /\ "app_access_token" \in DOMAIN last.kw)
        => /\ Count(last.reqs, "grant") = 0
           /\ last.op = "TestUser" => Endpoints(last.reqs) = <<"create">>

\* the create-user options and the class default of each
Options == {"installed", "permissions", "name", "locale", "id"}

ClassDefault(k) ==
    CASE k = "installed" -> generate_user_installed
      [] k = "permissions" -> generate_user_permissions
      [] k = "name" -> generate_name
      [] k = "locale" -> generate_user_locale
      [] OTHER -> generate_user_id

Resolved(kw, k) == IF k \in DOMAIN kw THEN kw[k] ELSE ClassDefault(k)

\* C6: the provisioning POST holds a create-user option exactly when its
\* resolved value (the given one, else the class default) is truthy.
C6_OptionSentIffTruthy ==
    last.op = "TestUser" =>
        \A i \in 1..Len(last.reqs) :
            (last.reqs[i].ep = "create" /\ last.reqs[i].method = "POST") =>
                \A k \in Options :
                    k \in DOMAIN last.reqs[i].params <=> Truthy(Resolved(last.kw, k))

C6_Witness ==
    /\ last.op = "TestUser"
    /\ last.exc = ""
    /\ {"permissions", "name", "installed", "id"} \subseteq DOMAIN last.kw
    /\ last.kw.permissions = Str("")
    /\ last.kw.name = None
    /\ last.kw.installed = Bool(FALSE)
    /\ DOMAIN last.reqs[2].params = {"locale", "id", "access_token"}

\* C7: a DELETE request is issued only by the teardown of a TestUser whose
\* delete_user is true, at most once in its life, to the id the provisioning
\* call returned and with the app access token; none is issued when
\* delete_user is false.
C7_DeleteOnlyAtTeardown ==
    /\ deletes <= 1
    /\ \A i \in 1..Len(last.reqs) :
           (last.reqs[i].method = "DELETE" \/ last.reqs[i].ep = "delete")
               => last.op = "__del__"
    /\ (tu.delete_user # Unset /\ ~Truthy(tu.delete_user)) => deletes = 0
    /\ deletes = 1 =>
           /\ phase = "dead"
           /\ last.op = "__del__"
           /\ tu.delete_user # Unset /\ Truthy(tu.delete_user)
           /\ created # Unset
           /\ Len(last.reqs) = 1
           /\ last.reqs[1].method = "DELETE"
           /\ last.reqs[1].url = FB_HOST \o "/" \o PyStr(Get(created.v, "id", None)).v
           /\ last.reqs[1].params = [access_token |-> tu.app_access_token]

C7_Witness ==
    /\ phase = "dead"
    /\ deletes = 1
    /\ ua.access_code = Str("K1")
    /\ last.op = "__del__"

\* C8: the teardown of a TestUser with delete_user true completes without
\* raising, whatever the outcome of the DELETE call.
C8_TeardownNeverRaises ==
    (last.op = "__del__" /\ Count(last.reqs, "delete") = 1) => last.exc = ""

\* C9: no accessor read or get_* call changes a token field that is
\* non-empty.
C9_NonEmptyFieldKept ==
    [][(Live /\ last'.op \notin Setters) =>
           \A f \in Reads : Truthy(ua[f]) => ua'[f] = ua[f]]_vars

C9_Witness ==
    /\ last.op = "long_term_access_token"
    /\ last.exc = ""
    /\ Endpoints(last.reqs) = <<"exchange">>
    /\ ua.access_token = Str("U0")
    /\ ua.long_term_access_token = Str("L1")

\* C10: the token exchange is never requested with an empty user access
\* token nor the client code with an empty long-term token; a read of
\* access_code on a store with the three fields empty requests the listing,
\* the exchange and the client code in that order, and when a fetch fails
\* nothing is requested after it, the fields that depend on it stay empty
\* and the fields fetched before it are kept.
C10_DependencyChain ==
    [][/\ \A i \in 1..Len(last'.reqs) :
              /\ last'.reqs[i].ep = "exchange"
                     => Truthy(last'.reqs[i].params.fb_exchange_token)
              /\ last'.reqs[i].ep = "client_code"
                     => Truthy(last'.reqs[i].params.access_token)
       /\ (/\ Live
           /\ last'.op = "access_code"
           /\ \A f \in Reads : ~Truthy(ua[f]))
              => LET n == Len(last'.reqs)
                 IN  /\ IsPrefix(Endpoints(last'.reqs), <<"listing", "exchange", "client_code">>)
                     /\ last'.exc = "" => n = 3
                     /\ last'.exc # "" => ~Truthy(ua'.access_code)
                     /\ n < 3 => ~Truthy(ua'.long_term_access_token)
                     /\ n < 2 => ~Truthy(ua'.access_token)
                     /\ n >= 2 => Truthy(ua'.access_token)
                     /\ n = 3 => Truthy(ua'.long_term_access_token)]_vars

====
